---- MODULE Spec2Model ----
(***************************************************************************)
(* Model of the n x n Noughts-and-Crosses engine: rules.py (the rules)     *)
(* and tictactoe.py (class TicTacToe: set_players, run, play).             *)
(*                                                                         *)
(* One TicTacToe object is modelled.  Players are external objects; the    *)
(* engine runs from one call it makes on a player (start, move, finish)    *)
(* to the next, and each such stretch is one action, so that the order of  *)
(* the calls is observable.  play() is modelled as it is called from       *)
(* run() (tictactoe.py:86).                                                *)
(*                                                                         *)
(* A board is the sequence of its rows; the cell numpy calls board[x, y]   *)
(* is board[x + 1][y + 1] here, and moves keep numpy's zero-based          *)
(* coordinates.                                                            *)
(***************************************************************************)
EXTENDS Integers, Sequences, FiniteSets, TLC

\* rules.py:8-11
EMPTY == 0
NOUGHT == 1
CROSS == 0 - 1
sides == <<CROSS, NOUGHT>>

\* tictactoe.py:27, the default board size; boards of size 1..DefaultN are modelled
DefaultN == 3
\* how far outside the board a player's answer may lie
MaxOff == 1
\* writes a player makes to the array it was handed, per move() call
MaxScribbles == 1
\* player objects a caller of set_players can choose from
PoolSize == 3

\* the player objects: as many as a match needs
PlayerIds == 1..Len(sides)
CellValues == {EMPTY, NOUGHT, CROSS}

VARIABLES
    n,           \* board.shape[0]
    board,       \* self.board
    held,        \* the array the outstanding move() call was handed: "copy" or "board"
    players,     \* self.__players (the list object)
    side,        \* player.side of every player object that has the attribute
    shuffle,     \* self.shuffle
    pc,          \* position of the engine
    idx,         \* position of the for loops of run()
    cyc,         \* the items captured by cycle(self.players())
    turn,        \* position of player_cycle
    outstanding, \* players with a move() call in progress
    result,      \* value play() returned / run() returns
    err,         \* exception the last call on the engine raised
    supplied,    \* history: the argument of the last successful set_players
    started,     \* history: players start() was called on in this run
    asked,       \* history: players move() was called on in this run
    finished,    \* history: <<player, value>> of the finish() calls of this run
    scribbles,   \* history: writes the player made to the array it holds, this request
    answerKind,  \* history: what the last answer of a player named on the board
    endMove,     \* history: the move applied by the iteration that left play()
    preReset,    \* history: how the engine was found when run() was called,
                 \* kept until the first answer of the run
    argLen,      \* history: len(players) of the last set_players call
    probe        \* the last call of a function of rules.py made on its own

vars == <<n, board, held, players, side, shuffle, pc, idx, cyc, turn,
          outstanding, result, err, supplied, started, asked, finished,
          scribbles, answerKind, endMove, preReset, argLen, probe>>

Range(s) == {s[i] : i \in DOMAIN s}
Idx(k) == 0..(k - 1)

\* board[x, y]
Cell(b, x, y) == b[x + 1][y + 1]

\* np.zeros((n, n)) / the array after board.fill(rules.EMPTY)
EmptyBoard(k) == [i \in 1..k |-> [j \in 1..k |-> EMPTY]]

\* the row-major enumeration of the cells of a k x k array
RowMajor(k) == [i \in 1..(k * k) |-> <<(i - 1) \div k, (i - 1) % k>>]

\* a bug empty_cells could have: np.nonzero(board), the occupied cells
occupied_cells(b, k) == SelectSeq(RowMajor(k), LAMBDA c : Cell(b, c[1], c[2]) # EMPTY)

\* rules.empty_cells: np.transpose(np.nonzero(board == EMPTY))
empty_cells(b, k) == SelectSeq(RowMajor(k), LAMBDA c : Cell(b, c[1], c[2]) = EMPTY)

\* a bug valid_move could have: any cell of the board is accepted
valid_move_any_cell(b, k, move) == move[1] \in Idx(k) /\ move[2] \in Idx(k)

\* rules.valid_move: list(move) in rules.empty_cells(board).tolist()
valid_move(b, k, move) ==
    LET cells == empty_cells(b, k)
    IN  \E i \in DOMAIN cells : cells[i] = move

\* ndarray.sum() of a one-dimensional array
RECURSIVE SumSeq(_, _)
SumSeq(s, j) == IF j = 0 THEN 0 ELSE s[j] + SumSeq(s, j - 1)

\* a bug winning_move could have: the sum compared without abs()
NoAbs(v) == v

\* abs()
Abs(v) == IF v < 0 THEN 0 - v ELSE v

\* board[x].sum(), board[:,y].sum(), board.diagonal().sum(), np.fliplr(board).diagonal().sum()
RowSum(b, k, x) == SumSeq(b[x + 1], k)
ColSum(b, k, y) == SumSeq([j \in 1..k |-> b[j][y + 1]], k)

\* a bug winning_move could have: the diagonal taken of the flipped array
DiagOfFlipped(b, k) == SumSeq([j \in 1..k |-> b[j][k + 1 - j]], k)

DiagSum(b, k) == SumSeq([j \in 1..k |-> b[j][j]], k)

\* a bug winning_move could have: np.fliplr forgotten
FlipForgotten(b, k) == SumSeq([j \in 1..k |-> b[j][j]], k)

AntiDiagSum(b, k) == SumSeq([j \in 1..k |-> b[j][k + 1 - j]], k)

\* rules.winning_move
winning_move(b, k, move) ==
    LET x == move[1]
        y == move[2]
    IN  IF Abs(RowSum(b, k, x)) = k THEN TRUE
        ELSE IF Abs(ColSum(b, k, y)) = k THEN TRUE
        ELSE IF x = y /\ Abs(DiagSum(b, k)) = k THEN TRUE
        ELSE IF x = (k - 1) - y /\ Abs(AntiDiagSum(b, k)) = k THEN TRUE
        ELSE FALSE

\* a bug board_full could have: only the first row is searched
board_full_first_row(b, k) == \A j \in 1..k : b[1][j] # EMPTY

\* rules.board_full: EMPTY not in board
board_full(b, k) == \A i \in 1..k : \A j \in 1..k : b[i][j] # EMPTY

\* a bug __tokens could have: both sides drawn alike
tokens_alike == (EMPTY :> " ") @@ (NOUGHT :> "x") @@ (CROSS :> "x")

\* rules.py:12, __tokens
tokens == (EMPTY :> " ") @@ (NOUGHT :> "o") @@ (CROSS :> "x")

\* rules.token
token(value) == IF value \in DOMAIN tokens THEN tokens[value] ELSE "?"

\* sep.join(parts), a string being the sequence of its characters
RECURSIVE Join(_, _, _)
Join(parts, sep, j) ==
    IF j = 0 THEN <<>>
    ELSE IF j = 1 THEN parts[1]
    ELSE Join(parts, sep, j - 1) \o <<sep>> \o parts[j]

\* rules.board_str
board_str(b) ==
    Join([i \in DOMAIN b |->
             Join([j \in DOMAIN b[i] |-> <<token(b[i][j])>>], "|", Len(b[i]))],
         "\n", Len(b))

(***************************************************************************)
(* TicTacToe                                                               *)
(***************************************************************************)
Min(a, b) == IF a < b THEN a ELSE b

\* lists of player objects a caller can pass; a list names an object once
PlayerLists ==
    UNION {{l \in [1..k -> PlayerIds] : \A i, j \in 1..k : l[i] = l[j] => i = j}
           : k \in 0..Cardinality(PlayerIds)}

\* lists a caller can build from a pool of player objects, none named twice
PoolLists ==
    UNION {{l \in [1..k -> 1..PoolSize] : \A i, j \in 1..k : l[i] = l[j] => i = j}
           : k \in 0..PoolSize}

\* player.side = side
SetSide(sd, p, s) == [q \in (DOMAIN sd) \cup {p} |-> IF q = p THEN s ELSE sd[q]]

\* for player, side in zip(players, rules.sides): player.side = side
RECURSIVE AssignSides(_, _, _)
AssignSides(sd, list, i) ==
    IF i > Min(Len(list), Len(sides)) THEN sd
    ELSE AssignSides(SetSide(sd, list[i], sides[i]), list, i + 1)

\* random.shuffle(list): every permutation of the list is a possible outcome
Shuffled(list) ==
    {l \in [DOMAIN list -> Range(list)] :
        \A i \in DOMAIN list : \E j \in DOMAIN list : l[j] = list[i]}

\* a bug run() could have: no reset
KeepBoard(b, k) == b

\* self.board.fill(rules.EMPTY)
ResetBoard(b, k) == EmptyBoard(k)

\* a bug play() could have: handing self.board itself to the player
PassBoardItself == "board"

\* the argument of player.move: self.board.copy()
PassedToMove == "copy"

\* a bug play() could have: the side taken from the turn position
SideOfTurn(sd, p, t) == sides[((t - 1) % Len(sides)) + 1]

\* the value play() writes for the player: player.side
PlayerSide(sd, p, t) == sd[p]

\* a bug play() could have: the move is validated but not written
ApplyNothing(b, move, s) == b

\* self.board[move] = player.side
ApplyMove(b, move, s) == [b EXCEPT ![move[1] + 1][move[2] + 1] = s]

\* a bug play() could have: the opponent's side is returned
ReturnedOpponent(sd, p) == 0 - sd[p]

\* play(), line 132: return player.side
ReturnedSide(sd, p) == sd[p]

\* a bug play() could have: the flag is not consulted
ShuffleAlways(flag) == TRUE

\* play(), line 104: if self.shuffle
ShuffleEnabled(flag) == flag

\* a bug run() could have: the loop over the players stops one short
LoopStopsShort(i, len) == i >= len

\* run(), lines 82 and 89: the for loop over self.players() is exhausted
LoopExhausted(i, len) == i > len

\* a bug play() could have: the full board is looked for first
FullBoardFirst(won, full) ==
    IF full THEN "draw" ELSE IF won THEN "win" ELSE "continue"

\* play(), lines 126-139: the win is looked for first, then the full board
Checks(won, full) ==
    IF won THEN "win" ELSE IF full THEN "draw" ELSE "continue"

\* a bug play() could have: the error is swallowed and run() returns
IllegalMoveReturns == "done"

\* play(), line 123: raise ValueError, which leaves play() and run()
IllegalMoveExit == "aborted"

\* a bug play() could have: the same player is asked again
SameTurn(t, len) == t

\* for player in player_cycle: the next item of cycle(...)
NextTurn(t, len) == (t % len) + 1

Pending == [kind |-> "none", side |-> EMPTY]
Win(s) == [kind |-> "win", side |-> s]
Draw == [kind |-> "draw", side |-> EMPTY]

NoMove == [move |-> <<0 - 1, 0 - 1>>, by |-> 0]
NoPreReset == [how |-> "none", dirty |-> FALSE, last |-> 0]
NoArg == 0 - 1
NoProbe == [fn |-> "none", kind |-> "none", ok |-> FALSE, str |-> <<>>]

\* the cell a player's answer names: an empty cell, an occupied one, or none
AnswerKind(b, k, move) ==
    IF move[1] \notin Idx(k) \/ move[2] \notin Idx(k) THEN "outside"
    ELSE IF Cell(b, move[1], move[2]) = EMPTY THEN "empty"
    ELSE "occupied"

\* answers a player can give to move(): the cells and a margin around the board
Answers == ((0 - MaxOff)..(n - 1 + MaxOff)) \X ((0 - MaxOff)..(n - 1 + MaxOff))

Between == {"idle", "done", "aborted"}

\* TicTacToe.__init__ (tictactoe.py:27-32) with players [1, 2]
Init ==
    /\ n \in 1..DefaultN
    /\ board = EmptyBoard(n)
    /\ held = "none"
    /\ players = <<1, 2>>
    /\ side = AssignSides(<<>>, <<1, 2>>, 1)
    /\ shuffle \in BOOLEAN
    /\ pc = "idle"
    /\ idx = 0
    /\ cyc = <<>>
    /\ turn = 0
    /\ outstanding = {}
    /\ result = Pending
    /\ err = "none"
    /\ supplied = <<1, 2>>
    /\ started = <<>>
    /\ asked = <<>>
    /\ finished = <<>>
    /\ scribbles = 0
    /\ answerKind = "none"
    /\ endMove = NoMove
    /\ preReset = NoPreReset
    /\ argLen = NoArg
    /\ probe = NoProbe

\* a bug set_players could have: only too many players are refused
TooManyPlayers(list) == Len(list) > Len(sides)

\* set_players, line 48: len(players) != len(rules.sides)
CountMismatch(list) == Len(list) # Len(sides)

\* a bug set_players could have: the sides are assigned before the count is checked
SidesAssignedFirst(sd, list) == AssignSides(sd, list, 1)

\* set_players, lines 48-50: the sides when the count is refused, before line 51
SidesOnReject(sd, list) == sd

\* set_players with a list of the wrong length: raise ValueError
SetPlayersFail(list) ==
    /\ CountMismatch(list)
    /\ err' = "config"
    /\ side' = SidesOnReject(side, list)
    /\ argLen' = Len(list)
    /\ UNCHANGED <<players, supplied>>

\* set_players with a list of the right length
SetPlayersOk(list) ==
    /\ ~CountMismatch(list)
    /\ argLen' = Len(list)
    /\ side' = AssignSides(side, list, 1)
    /\ players' = list
    /\ supplied' = list
    /\ err' = "none"

\* TicTacToe.set_players, called between two runs with a list out of `lists`.
\* The history of a run is kept until the next call on the engine.
SetPlayersFrom(lists) ==
    /\ pc \in Between
    /\ \E list \in lists : SetPlayersFail(list) \/ SetPlayersOk(list)
    /\ pc' = "idle"
    /\ result' = Pending
    /\ started' = <<>>
    /\ asked' = <<>>
    /\ finished' = <<>>
    /\ endMove' = NoMove
    /\ answerKind' = "none"
    /\ UNCHANGED <<probe, n, board, held, shuffle, idx, cyc, turn, outstanding,
                   scribbles, preReset>>

\* TicTacToe.set_players with the players of the match
SetPlayers == SetPlayersFrom(PlayerLists)

\* TicTacToe.set_players with any list of the player objects of the pool
SetPlayersAny == SetPlayersFrom(PoolLists)

\* run(), line 79: the reset that opens a run
RunReset ==
    /\ pc \in Between
    /\ preReset' = [how |-> IF pc = "done" THEN result.kind ELSE pc,
                    dirty |-> board # EmptyBoard(n),
                    last |-> endMove.by]
    /\ board' = ResetBoard(board, n)
    /\ pc' = "starting"
    /\ idx' = 1
    /\ result' = Pending
    /\ err' = "none"
    /\ started' = <<>>
    /\ asked' = <<>>
    /\ finished' = <<>>
    /\ endMove' = NoMove
    /\ answerKind' = "none"
    /\ argLen' = NoArg
    /\ UNCHANGED <<probe, n, held, players, side, shuffle, cyc, turn, outstanding,
                   supplied, scribbles>>

\* run(), lines 82-83: one iteration of the start() loop
StartPlayer ==
    /\ pc = "starting"
    /\ idx <= Len(players)
    /\ started' = Append(started, players[idx])
    /\ idx' = idx + 1
    /\ UNCHANGED <<argLen, probe, n, board, held, players, side, shuffle, pc, cyc, turn,
                   outstanding, result, err, supplied, asked, finished, scribbles,
                   answerKind, endMove, preReset>>

\* play(), line 115: player.move(self.board.copy()) is called on order[t]
CallMove(order, t) ==
    /\ held' = PassedToMove
    /\ outstanding' = (outstanding \ Range(cyc)) \cup {order[t]}
    /\ asked' = Append(asked, order[t])
    /\ scribbles' = 0
    /\ pc' = "moving"

\* play(), lines 104-115: the optional shuffle, the creation of the cycle and
\* the first call of move()
PlayBegin ==
    /\ pc = "starting"
    /\ LoopExhausted(idx, Len(players))
    /\ IF ShuffleEnabled(shuffle)
       THEN players' \in Shuffled(players)
       ELSE players' = players
    /\ cyc' = players'
    /\ turn' = 1
    /\ CallMove(players', 1)
    /\ idx' = 0
    /\ UNCHANGED <<argLen, probe, n, board, side, shuffle, result, err, supplied, started,
                   finished, answerKind, endMove, preReset>>

\* inside player.move: the player writes into the array it was handed.  The
\* copy is the player's own object, which the engine never reads again, so
\* only the number of writes is kept of it.
Scribble ==
    /\ pc = "moving"
    /\ scribbles < MaxScribbles
    /\ IF held = "board"
       THEN \E x \in Idx(n), y \in Idx(n), v \in CellValues :
               board' = ApplyMove(board, <<x, y>>, v)
       ELSE board' = board
    /\ scribbles' = scribbles + 1
    /\ UNCHANGED <<argLen, probe, n, held, players, side, shuffle, pc, idx, cyc, turn,
                   outstanding, result, err, supplied, started, asked, finished,
                   answerKind, endMove, preReset>>

\* play(), lines 115-139 and on to the next line 115: player.move returns
\* `move`; the rest of the iteration and, if the loop goes on, the next call
ReturnMove(move) ==
    LET player == cyc[turn]
        after == ApplyMove(board, move, PlayerSide(side, player, turn))
        check == Checks(winning_move(after, n, move), board_full(after, n))
    IN  /\ pc = "moving"
        /\ answerKind' = AnswerKind(board, n, move)
        /\ preReset' = NoPreReset
        /\ IF valid_move(board, n, move)
           THEN /\ board' = after
                /\ err' = err
                /\ IF check = "win"
                   THEN /\ result' = Win(ReturnedSide(side, player))
                        /\ endMove' = [move |-> move, by |-> player]
                        /\ pc' = "finishing"
                        /\ idx' = 1
                        /\ outstanding' = outstanding \ {player}
                        /\ held' = "none"
                        /\ scribbles' = 0
                        /\ UNCHANGED <<turn, asked>>
                   ELSE IF check = "draw"
                   THEN /\ result' = Draw
                        /\ endMove' = [move |-> move, by |-> player]
                        /\ pc' = "finishing"
                        /\ idx' = 1
                        /\ outstanding' = outstanding \ {player}
                        /\ held' = "none"
                        /\ scribbles' = 0
                        /\ UNCHANGED <<turn, asked>>
                   ELSE /\ turn' = NextTurn(turn, Len(cyc))
                        /\ CallMove(cyc, turn')
                        /\ UNCHANGED <<result, endMove, idx>>
                /\ cyc' = cyc
           ELSE /\ err' = "illegal_move"
                /\ pc' = IllegalMoveExit
                /\ outstanding' = outstanding \ {player}
                /\ held' = "none"
                /\ cyc' = <<>>
                /\ turn' = 0
                /\ scribbles' = 0
                /\ UNCHANGED <<board, endMove, result, idx, asked>>
        /\ UNCHANGED <<argLen, probe, n, players, side, shuffle, supplied, started,
                       finished>>

\* the player answers with an empty cell of the board
AnswerLegal ==
    \E move \in Range(empty_cells(board, n)) : ReturnMove(move)

\* the player answers with anything else
AnswerIllegal ==
    \E move \in Answers \ Range(empty_cells(board, n)) : ReturnMove(move)

\* run(), lines 89-90: one iteration of the finish() loop
FinishPlayer ==
    /\ pc = "finishing"
    /\ idx <= Len(players)
    /\ finished' = Append(finished, <<players[idx], result>>)
    /\ idx' = idx + 1
    /\ UNCHANGED <<argLen, probe, n, board, held, players, side, shuffle, pc, cyc, turn,
                   outstanding, result, err, supplied, started, asked, scribbles,
                   answerKind, endMove, preReset>>

\* run(), line 92: return winner
RunReturn ==
    /\ pc = "finishing"
    /\ LoopExhausted(idx, Len(players))
    /\ pc' = "done"
    /\ idx' = 0
    /\ cyc' = <<>>
    /\ turn' = 0
    /\ UNCHANGED <<argLen, probe, n, board, held, players, side, shuffle, outstanding, result,
                   err, supplied, started, asked, finished, scribbles, answerKind,
                   endMove, preReset>>

Next ==
    \/ SetPlayers
    \/ RunReset
    \/ StartPlayer
    \/ PlayBegin
    \/ Scribble
    \/ AnswerLegal
    \/ AnswerIllegal
    \/ FinishPlayer
    \/ RunReturn

Spec == Init /\ [][Next]_vars

\* any k x k array of cell values, k up to the default size
RulesInit ==
    /\ n \in 1..DefaultN
    /\ board \in [1..n -> [1..n -> CellValues]]
    /\ held = "none"
    /\ players = <<1, 2>>
    /\ side = AssignSides(<<>>, <<1, 2>>, 1)
    /\ shuffle = FALSE
    /\ pc = "idle"
    /\ idx = 0
    /\ cyc = <<>>
    /\ turn = 0
    /\ outstanding = {}
    /\ result = Pending
    /\ err = "none"
    /\ supplied = <<1, 2>>
    /\ started = <<>>
    /\ asked = <<>>
    /\ finished = <<>>
    /\ scribbles = 0
    /\ answerKind = "none"
    /\ endMove = NoMove
    /\ preReset = NoPreReset
    /\ argLen = NoArg
    /\ probe = NoProbe

engineVars == <<n, board, held, players, side, shuffle, pc, idx, cyc, turn,
                outstanding, result, err, supplied, started, asked, finished,
                scribbles, answerKind, endMove, preReset, argLen>>

\* rules.valid_move is called with the array and some coordinates
ProbeValidMove ==
    /\ \E move \in Answers :
          probe' = [fn |-> "valid_move", kind |-> AnswerKind(board, n, move),
                    ok |-> valid_move(board, n, move), str |-> <<>>]
    /\ UNCHANGED engineVars

\* rules.winning_move is called with the array and a cell of it
ProbeWinningMove ==
    /\ \E x \in Idx(n), y \in Idx(n) :
          probe' = [fn |-> "winning_move", kind |-> "cell",
                    ok |-> winning_move(board, n, <<x, y>>), str |-> <<>>]
    /\ UNCHANGED engineVars

\* rules.board_str is called with the array
ProbeBoardStr ==
    /\ probe' = [fn |-> "board_str", kind |-> "board", ok |-> TRUE,
                 str |-> board_str(board)]
    /\ UNCHANGED engineVars

\* the functions of rules.py alone, on arbitrary arrays
NextRules == ProbeValidMove \/ ProbeWinningMove \/ ProbeBoardStr
SpecRules == RulesInit /\ [][NextRules]_vars

\* the configuration calls alone, on a pool of player objects
NextPlayers == SetPlayersAny
SpecPlayers == Init /\ [][NextPlayers]_vars

TypeOK ==
    /\ n \in 1..DefaultN
    /\ board \in [1..n -> [1..n -> CellValues]]
    /\ pc \in {"idle", "starting", "moving", "finishing", "done", "aborted"}

(***************************************************************************)
(* Vocabulary of the properties                                            *)
(***************************************************************************)
AllCells == Idx(n) \X Idx(n)
At(b, c) == Cell(b, c[1], c[2])
Filled(b) == Cardinality({c \in AllCells : At(b, c) # EMPTY})
CountOf(b, s) == Cardinality({c \in AllCells : At(b, c) = s})
Last(s) == s[Len(s)]

\* the lines of the board that pass through cell c
LinesThrough(c) ==
    {{<<c[1], j>> : j \in Idx(n)}, {<<j, c[2]>> : j \in Idx(n)}}
    \cup (IF c[1] = c[2] THEN {{<<j, j>> : j \in Idx(n)}} ELSE {})
    \cup (IF c[1] = (n - 1) - c[2] THEN {{<<j, (n - 1) - j>> : j \in Idx(n)}} ELSE {})
CompleteLine(b, line, s) == \A c \in line : At(b, c) = s

\* a player's answer was accepted / rejected in this step
AcceptStep == pc = "moving" /\ (pc' = "finishing" \/ (pc' = "moving" /\ asked' # asked))
AbortStep == pc = "moving" /\ pc' = "aborted"
\* exactly cell c changes in this step, from EMPTY to v
WritesOnly(c, v) ==
    /\ At(board, c) = EMPTY
    /\ At(board', c) = v
    /\ \A d \in AllCells \ {c} : At(board', d) = At(board, d)
Over == pc \in {"finishing", "done"}
NotifiedBoth(value) ==
    /\ Len(finished) = Len(players)
    /\ \A i \in DOMAIN finished : finished[i] = <<players[i], value>>
    /\ Range(players) = PlayerIds

(***************************************************************************)
(* C1.  While the players answer with legal moves, play() applies at most  *)
(* n*n moves: the number of move() calls made equals the number of filled  *)
(* cells (plus the call in progress) and never exceeds n*n, every accepted *)
(* answer turns exactly one EMPTY cell into a non-EMPTY one, and play()    *)
(* ends with a win of a side or with the draw value.                       *)
(***************************************************************************)
C1_Inv ==
    /\ pc = "moving" => Len(asked) = Filled(board) + 1 /\ Len(asked) <= n * n
    /\ Over => /\ Len(asked) = Filled(board)
               /\ Len(asked) <= n * n
               /\ result \in {Win(sides[i]) : i \in DOMAIN sides} \cup {Draw}
C1_Step == AcceptStep => \E c \in AllCells, v \in CellValues \ {EMPTY} : WritesOnly(c, v)
C1_PlayBounded == [](C1_Inv) /\ [][C1_Step]_vars
C1_Witness == pc = "done" /\ n = DefaultN /\ Len(asked) = n * n /\ result = Draw

(***************************************************************************)
(* C2.  An answer that does not name an EMPTY cell of the board (occupied  *)
(* or outside the board) aborts play() at once with the illegal-move       *)
(* error: the board is unchanged, no move() call is made or in progress,   *)
(* and an aborted run asks for no further move.                            *)
(***************************************************************************)
C2_Step ==
    /\ (AcceptStep \/ AbortStep) /\ answerKind' # "empty" =>
          /\ pc' = "aborted"
          /\ err' = "illegal_move"
          /\ board' = board
          /\ asked' = asked
          /\ outstanding' = {}
    /\ pc = "aborted" => pc' \in {"aborted", "idle", "starting"} /\ outstanding' = {}
    /\ AbortStep => answerKind' # "empty"
C2_IllegalMoveAborts == [][C2_Step]_vars
C2_Witness ==
    pc = "aborted" /\ answerKind = "occupied" /\ err = "illegal_move" /\ Filled(board) >= 2

(***************************************************************************)
(* C3.  When run() ends with a side value s, s is the side of the player   *)
(* who made the last move, the board has a complete line of s through      *)
(* that move, and once run() has returned finish(s) was called on both     *)
(* players.                                                                *)
(***************************************************************************)
C3_WinIsLastMoversLine ==
    Over /\ result.kind = "win" =>
        /\ result.side \in Range(sides)
        /\ endMove.by = Last(asked)
        /\ result.side = side[endMove.by]
        /\ At(board, endMove.move) = result.side
        /\ \E line \in LinesThrough(endMove.move) : CompleteLine(board, line, result.side)
        /\ pc = "done" => NotifiedBoth(result)
C3_Witness == pc = "done" /\ result.kind = "win" /\ n = DefaultN /\ Filled(board) = 5

(***************************************************************************)
(* C4.  run() ends with the draw value exactly when the last applied move  *)
(* left no EMPTY cell and completed no line; the draw value is no side,    *)
(* and once run() has returned finish(draw) was called on both players.    *)
(***************************************************************************)
C4_DrawIffFullNoLine ==
    /\ Over =>
          /\ result.kind = "draw" <=>
                /\ Filled(board) = n * n
                /\ ~\E line \in LinesThrough(endMove.move) :
                       CompleteLine(board, line, At(board, endMove.move))
          /\ result.kind = "draw" => result.side \notin Range(sides)
          /\ pc = "done" /\ result.kind = "draw" => NotifiedBoth(Draw)
    /\ pc = "moving" => Filled(board) < n * n
C4_Witness == pc = "done" /\ result.kind = "draw" /\ Filled(board) = n * n

(***************************************************************************)
(* C5.  The players are asked in a repeating cycle, one move per visit:    *)
(* no player is asked twice in a row, at most one move() call is in        *)
(* progress (exactly one while play() waits), and the side of the first    *)
(* mover holds as many cells as the other side, or one more.               *)
(***************************************************************************)
C5_Alternation ==
    /\ Cardinality(outstanding) <= 1
    /\ pc = "moving" => outstanding = {Last(asked)}
    /\ pc # "moving" => outstanding = {}
    /\ \A i \in 1..(Len(asked) - 1) : asked[i + 1] # asked[i]
    /\ \A i \in (Len(players) + 1)..Len(asked) : asked[i] = asked[i - Len(players)]
    /\ asked # <<>> =>
          CountOf(board, side[asked[1]]) - CountOf(board, 0 - side[asked[1]]) \in {0, 1}
C5_Witness == pc = "moving" /\ Len(asked) = 4 /\ asked[1] # supplied[1]

(***************************************************************************)
(* C6.  The board changes only by the reset of run() and by accepted       *)
(* moves.  An accepted move writes the mover's side into one EMPTY cell    *)
(* (the cell of the move, where the move is recorded) and nothing else;    *)
(* every cell is EMPTY, NOUGHT or CROSS; what a player writes into the     *)
(* array it was handed leaves the board alone.                             *)
(***************************************************************************)
C6_Step ==
    /\ board' # board =>
          \/ pc \in Between /\ pc' = "starting" /\ board' = EmptyBoard(n)
          \/ /\ AcceptStep
             /\ answerKind' = "empty"
             /\ \E c \in AllCells : WritesOnly(c, side[Last(asked)])
             /\ pc' = "finishing" => WritesOnly(endMove'.move, side[endMove'.by])
    /\ scribbles' > scribbles => board' = board
C7_ResetBeforeStart ==
    /\ pc = "starting" => board = EmptyBoard(n) /\ asked = <<>>
    /\ pc = "moving" /\ Len(asked) = 1 => board = EmptyBoard(n)
C7_Witness ==
    pc = "starting" /\ started = <<>> /\ preReset.how = "aborted" /\ preReset.dirty

(***************************************************************************)
(* C8.  The sides are those set_players assigned: the first supplied       *)
(* player holds sides[1], the second sides[2], the two differ, only        *)
(* set_players changes a side, the shuffle reorders the same players, and  *)
(* an accepted move writes the side assigned to the player who was asked.  *)
(***************************************************************************)
C8_Inv ==
    /\ \A i \in DOMAIN supplied : side[supplied[i]] = sides[i]
    /\ Len(players) = Len(sides)
    /\ Range(players) = Range(supplied)
    /\ side[players[1]] # side[players[2]]
C8_Step ==
    /\ side' # side => pc \in Between /\ pc' = "idle"
    /\ players' # players /\ pc = "starting" => shuffle /\ side' = side /\ supplied' = supplied
    /\ AcceptStep => \E c \in AllCells : WritesOnly(c, side[Last(asked)])
C9_SuppliedOrderWithoutShuffle ==
    ~shuffle => \A i \in DOMAIN asked : asked[i] = supplied[((i - 1) % Len(supplied)) + 1]
C9_Witness ==
    /\ ~shuffle
    /\ pc = "moving"
    /\ Len(asked) = 1
    /\ preReset.how = "win"
    /\ preReset.last = supplied[1]

(***************************************************************************)
(* C10.  start() is called in the order supplied to set_players, and the   *)
(* stored list keeps that order, with shuffling enabled too.               *)
(***************************************************************************)
C10_StartOrderIsSupplied ==
    /\ players = supplied
    /\ \A i \in DOMAIN started : started[i] = supplied[i]

(***************************************************************************)
(* C11.  A run that ends with a win or a draw goes: reset, start() on      *)
(* each of the two players once, the move() calls, finish(result) on each  *)
(* of the two players once, return of the same result.  No move() call is  *)
(* made before both start() calls or after the first finish() call.        *)
(***************************************************************************)
StartedBoth == Len(started) = Len(sides) /\ Range(started) = PlayerIds
C11_Inv ==
    /\ pc = "starting" => board = EmptyBoard(n) /\ asked = <<>> /\ finished = <<>>
    /\ asked # <<>> => StartedBoth
    /\ finished # <<>> =>
          /\ Over
          /\ outstanding = {}
          /\ result.kind \in {"win", "draw"}
          /\ \A i \in DOMAIN finished : finished[i][2] = result
          /\ \A i, j \in DOMAIN finished : finished[i][1] = finished[j][1] => i = j
    /\ pc = "done" => StartedBoth /\ NotifiedBoth(result) /\ asked # <<>>
C11_Step ==
    /\ started' # started /\ started' # <<>> =>
          pc = "starting" /\ asked' = <<>> /\ finished' = <<>>
    /\ asked' # asked /\ asked' # <<>> => StartedBoth /\ finished' = <<>>
    /\ finished' # finished /\ finished' # <<>> =>
          pc = "finishing" /\ asked' = asked /\ started' = started /\ result' = result
    /\ pc # "done" /\ pc' = "done" =>
          pc = "finishing" /\ result' = result /\ finished' = finished
C11_RunOrder == [](C11_Inv) /\ [][C11_Step]_vars
C11_Witness ==
    pc = "done" /\ result.kind = "draw" /\ Len(started) = 2 /\ Len(finished) = 2
       /\ started # supplied

(***************************************************************************)
(* C12.  set_players raises the configuration error for every list whose   *)
(* length is not 2.  For a list of 2 players it succeeds: the list is      *)
(* stored, its first player gets sides[1], its second sides[2], the two    *)
(* sides differ, and no other player's side changes.                       *)
(***************************************************************************)
SetPlayersStep == pc \in Between /\ pc' = "idle"
C12_Step ==
    SetPlayersStep =>
        /\ argLen' # Len(sides) => err' = "config"
        /\ argLen' = Len(sides) =>
              /\ err' = "none"
              /\ Len(supplied') = Len(sides)
              /\ players' = supplied'
              /\ \A i \in DOMAIN sides : side'[supplied'[i]] = sides[i]
              /\ side'[supplied'[1]] # side'[supplied'[2]]
              /\ \A p \in DOMAIN side \ Range(supplied') : side'[p] = side[p]
InsideAndEmpty(b, move) ==
    /\ move[1] \in Idx(n)
    /\ move[2] \in Idx(n)
    /\ b[move[1] + 1][move[2] + 1] = EMPTY
C13_ValidMoveIffEmptyCell ==
    /\ \A move \in Answers :
          /\ valid_move(board, n, move) \in BOOLEAN
          /\ valid_move(board, n, move) <=> move \in Range(empty_cells(board, n))
          /\ move \in Range(empty_cells(board, n)) <=> InsideAndEmpty(board, move)
    /\ probe.fn = "valid_move" => (probe.ok <=> probe.kind = "empty")
C13_Witness ==
    probe.fn = "valid_move" /\ probe.kind = "outside" /\ ~probe.ok
       /\ n = DefaultN /\ Filled(board) = 4

(***************************************************************************)
(* C14.  On every k x k array of cell values and every cell (x, y) of it,  *)
(* winning_move is true exactly when one of the lines through (x, y) (its  *)
(* row, its column, the main diagonal if x = y, the anti-diagonal if       *)
(* x = (k-1)-y) consists of k equal cells of one side.                     *)
(***************************************************************************)
C14_WinningMoveIffLine ==
    \A move \in AllCells :
        winning_move(board, n, move) <=>
            \E line \in LinesThrough(move) :
                \E s \in {NOUGHT, CROSS} : CompleteLine(board, line, s)
C14_Witness ==
    /\ probe.fn = "winning_move"
    /\ probe.ok
    /\ n = DefaultN
    /\ Filled(board) = n
    /\ \A j \in Idx(n) : At(board, <<j, (n - 1) - j>>) = CROSS

(***************************************************************************)
(* C15.  The three cell values have three different tokens, none of them   *)
(* a separator, and reading the string of board_str back (lines split at   *)
(* the newline, cells at '|', tokens mapped to their values) gives the     *)
(* array that was rendered.                                                *)
(***************************************************************************)
\* the pieces of string s between the separators sep
RECURSIVE Split(_, _)
Split(s, sep) ==
    IF \A i \in DOMAIN s : s[i] # sep THEN <<s>>
    ELSE LET i == CHOOSE i \in DOMAIN s :
                      s[i] = sep /\ \A j \in 1..(i - 1) : s[j] # sep
         IN  <<SubSeq(s, 1, i - 1)>> \o Split(SubSeq(s, i + 1, Len(s)), sep)
ValueOf(tok) == CHOOSE v \in CellValues : token(v) = tok
ParseCell(cell) == IF Len(cell) = 1 THEN ValueOf(cell[1]) ELSE 2
ParseRow(row) == LET cells == Split(row, "|") IN [j \in DOMAIN cells |-> ParseCell(cells[j])]
ParseBoard(s) == LET rows == Split(s, "\n") IN [i \in DOMAIN rows |-> ParseRow(rows[i])]
C15_BoardStrRoundTrip ==
    /\ \A v, w \in CellValues : token(v) = token(w) => v = w
    /\ \A v \in CellValues : token(v) \notin {"|", "\n", "?"}
    /\ ParseBoard(board_str(board)) = board
    /\ probe.fn = "board_str" => ParseBoard(probe.str) = board
C15_Witness ==
    /\ probe.fn = "board_str"
    /\ n = 2
    /\ probe.str = <<"x", "|", " ", "\n", "o", "|", "x">>

(***************************************************************************)
(* C16.  A legal move that fills the last EMPTY cell and completes a line  *)
(* ends the match with a win of the mover's side, not with a draw.         *)
(***************************************************************************)
C16_WinBeforeDraw ==
    /\ Over
    /\ Filled(board) = n * n
    /\ \E line \in LinesThrough(endMove.move) :
          CompleteLine(board, line, At(board, endMove.move))
    => result = Win(side[endMove.by])
C16_Witness ==
    pc = "done" /\ n = DefaultN /\ Filled(board) = n * n /\ result = Win(CROSS)

(***************************************************************************)
(* C17.  In the states play() reaches, looking at the lines through the    *)
(* last move finds every complete line: play() goes on (or aborts) only    *)
(* on boards without a complete line, a board has a complete line exactly  *)
(* when play() ended with a win, a drawn board has none and a won board    *)
(* has none of the losing side.                                            *)
(***************************************************************************)
AllLines ==
    {{<<i, j>> : j \in Idx(n)} : i \in Idx(n)}
    \cup {{<<j, i>> : j \in Idx(n)} : i \in Idx(n)}
    \cup {{<<j, j>> : j \in Idx(n)}, {<<j, (n - 1) - j>> : j \in Idx(n)}}
HasLine(b, s) == \E line \in AllLines : CompleteLine(b, line, s)
AnyLine(b) == HasLine(b, NOUGHT) \/ HasLine(b, CROSS)
C17_LastMoveLinesSuffice ==
    /\ pc \in {"moving", "aborted"} => ~AnyLine(board)
    /\ Over =>
          /\ AnyLine(board) <=> winning_move(board, n, endMove.move)
          /\ AnyLine(board) <=> result.kind = "win"
          /\ result.kind = "draw" => ~AnyLine(board)
          /\ result.kind = "win" => ~HasLine(board, 0 - result.side)
C17_Witness ==
    pc = "done" /\ result.kind = "win" /\ n = DefaultN /\ Filled(board) = 7
       /\ endMove.move = <<0, 2>>

(***************************************************************************)
(* C18.  A run that aborts with the illegal-move error hands the error to  *)
(* the caller of run(): start() was called on both players, finish() on    *)
(* none, and run() has no result.                                          *)
(***************************************************************************)
C18_Inv ==
    /\ err = "illegal_move" => pc = "aborted"
    /\ pc = "aborted" =>
          /\ err = "illegal_move"
          /\ StartedBoth
          /\ finished = <<>>
          /\ result = Pending
          /\ outstanding = {}
C18_AbortSkipsFinish == [](C18_Inv) /\ [][pc = "aborted" => finished' = <<>>]_vars
C18_Witness ==
    pc = "aborted" /\ answerKind = "outside" /\ Len(asked) = 2 /\ Len(started) = 2
       /\ finished = <<>>

(***************************************************************************)
(* C19.  A set_players call refused for its player count changes nothing:  *)
(* the stored list, the side of every player (bound before, or named in    *)
(* the refused list) and the board are as before, and the engine still     *)
(* has as many players as there are sides.                                 *)
(***************************************************************************)
C19_Step ==
    SetPlayersStep /\ err' = "config" =>
        /\ players' = players
        /\ supplied' = supplied
        /\ side' = side
        /\ board' = board
        /\ Len(players') = Len(sides)
C19_RefusedCallChangesNothing == [][C19_Step]_vars
C19_Witness ==
    pc = "idle" /\ err = "config" /\ argLen = 1 /\ players # supplied
       /\ Filled(board) = 5

(***************************************************************************)
(* C20.  On a 1 x 1 and on a 2 x 2 board no match is drawn: the match      *)
(* ends on the first move (1 x 1) or on the third move (2 x 2), with a     *)
(* win of the side of the player who moved first.                          *)
(***************************************************************************)
LastMoveOfSmallBoard == IF n = 1 THEN 1 ELSE 3
C20_SmallBoardsFirstMoverWins ==
    n \in {1, 2} =>
        /\ result.kind # "draw"
        /\ pc = "moving" => Len(asked) <= LastMoveOfSmallBoard
        /\ Over => /\ Len(asked) = LastMoveOfSmallBoard
                   /\ result = Win(side[asked[1]])
C20_Witness ==
    n = 2 /\ pc = "done" /\ Len(asked) = 3 /\ result = Win(NOUGHT)

====
